---- MODULE Spec2Model ----
(***************************************************************************)
(* Reynolds_viewer.py: the Reynolds number over a flow-rate x diameter     *)
(* grid, masked to a displayed range, with a z = 2000 boundary plane and   *)
(* a fixed-diameter cross-section.                                         *)
(*                                                                         *)
(* Numbers.  A float is modelled as an exact fraction [n, d] in lowest     *)
(* terms with d >= 0.  d = 0 holds the IEEE-754 special values:            *)
(* 1/0 = +inf, -1/0 = -inf, 0/0 = NaN.  Rounding is not modelled; the      *)
(* special values, their arithmetic and their comparisons are.             *)
(*                                                                         *)
(* Operands.  A Python scalar and a numpy array behave differently under   *)
(* "/" (ZeroDivisionError against inf/NaN), so every operand carries its   *)
(* kind: "py" (a Python int or float), "nd" (a numpy.ndarray with a shape  *)
(* and its entries in row-major order) or "raise" (the evaluation ended    *)
(* in an exception).                                                       *)
(***************************************************************************)
EXTENDS Integers, Sequences, FiniteSets

\* ------------------------------------------------------------- numbers

Abs(i) == IF i < 0 THEN -i ELSE i

Sign(i) == IF i > 0 THEN 1 ELSE IF i < 0 THEN -1 ELSE 0

RECURSIVE GCD(_, _)
GCD(a, b) == IF b = 0 THEN a ELSE GCD(b, a % b)

\* The float n/d, in lowest terms; d = 0 gives +inf, -inf or NaN.
R(n, d) ==
    IF d = 0 THEN [n |-> Sign(n), d |-> 0]
    ELSE IF n = 0 THEN [n |-> 0, d |-> 1]
    ELSE LET g == GCD(Abs(n), Abs(d))
         IN  [n |-> (Sign(d) * n) \div g, d |-> Abs(d) \div g]

NaN == [n |-> 0, d |-> 0]
PosInf == [n |-> 1, d |-> 0]
NegInf == [n |-> -1, d |-> 0]

IsNaN(a) == a.d = 0 /\ a.n = 0
IsInf(a) == a.d = 0 /\ a.n # 0
IsFinite(a) == a.d > 0
IsZero(a) == a.d > 0 /\ a.n = 0
IsPositive(a) == a.d > 0 /\ a.n > 0

\* a * b.  inf * 0 and anything with NaN give NaN.  Finite operands are
\* cancelled crosswise first, so the only products formed are those of the
\* result in lowest terms.
Mul(a, b) ==
    IF a.d = 0 \/ b.d = 0 THEN [n |-> Sign(a.n) * Sign(b.n), d |-> 0]
    ELSE IF a.n = 0 \/ b.n = 0 THEN [n |-> 0, d |-> 1]
    ELSE LET g1 == GCD(Abs(a.n), b.d)
             g2 == GCD(Abs(b.n), a.d)
         IN  [n |-> (a.n \div g1) * (b.n \div g2),
              d |-> (a.d \div g2) * (b.d \div g1)]

\* 1 / a under numpy's float division: 1/0 = inf, 1/inf = 0, 1/NaN = NaN.
Recip(a) ==
    IF a.n > 0 THEN [n |-> a.d, d |-> a.n]
    ELSE IF a.n < 0 THEN [n |-> -a.d, d |-> -a.n]
    ELSE IF a.d = 0 THEN NaN
    ELSE PosInf

\* a / b under numpy's float division: x/0 = +-inf, 0/0 = NaN (a warning,
\* no exception).
Div(a, b) == Mul(a, Recip(b))

\* a + b, finite operands.
Add(a, b) == R(a.n * b.d + b.n * a.d, a.d * b.d)

\* an/ad < bn/bd for ad, bd > 0, by continued fractions: no product is
\* formed, so the comparison cannot overflow.
RECURSIVE LessFin(_, _, _, _)
LessFin(an, ad, bn, bd) ==
    LET qa == an \div ad
        qb == bn \div bd
        ra == an % ad
        rb == bn % bd
    IN  IF qa # qb THEN qa < qb
        ELSE IF rb = 0 THEN FALSE
        ELSE IF ra = 0 THEN TRUE
        ELSE LessFin(bd, rb, ad, ra)

\* a < b in IEEE-754: FALSE whenever either side is NaN.
Less(a, b) ==
    IF IsNaN(a) \/ IsNaN(b) THEN FALSE
    ELSE IF a.d = 0 /\ b.d = 0 THEN a.n < b.n
    ELSE IF a.d = 0 THEN a.n < 0
    ELSE IF b.d = 0 THEN b.n > 0
    ELSE LessFin(a.n, a.d, b.n, b.d)

\* a <= b in IEEE-754 (the script itself compares with < and > only).
Leq(a, b) == Less(a, b) \/ (a = b /\ ~IsNaN(a))

\* a >= b in IEEE-754.
Geq(a, b) == Leq(b, a)

\* a > b in IEEE-754.
Greater(a, b) == Less(b, a)

\* a | b on booleans.
Or(a, b) == a \/ b

\* v - lo on finite operands (no subtraction occurs in the script).
Rebase(v, lo) == IF IsFinite(v) /\ IsFinite(lo) THEN Add(v, R(-lo.n, lo.d)) ELSE v

\* The binary operator named op, applied to two entries.
Apply(op, a, b) ==
    CASE op = "*" -> Mul(a, b)
      [] op = "/" -> Div(a, b)
      [] op = "<" -> Less(a, b)
      [] op = ">" -> Greater(a, b)
      [] op = "|" -> Or(a, b)
      [] op = "<=" -> Leq(a, b)
      [] op = ">=" -> Geq(a, b)
      [] op = "-" -> Rebase(a, b)

\* ------------------------------------------------------------ operands

\* A Python scalar.
Py(r) == [kind |-> "py", shape |-> <<>>, v |-> <<r>>]

\* A one-dimensional numpy array.
Nd1(s) == [kind |-> "nd", shape |-> <<Len(s)>>, v |-> s]

\* The evaluation ended in an exception (ZeroDivisionError).
Raised == [kind |-> "raise", shape |-> <<>>, v |-> <<>>]

\* Entry k of an operand under broadcasting: a scalar is every entry.
Pick(a, k) == IF a.kind = "py" THEN a.v[1] ELSE a.v[k]

BroadcastShape(a, b) == IF a.kind = "nd" THEN a.shape ELSE b.shape

BroadcastCount(a, b) == IF a.kind = "nd" THEN Len(a.v) ELSE Len(b.v)

\* A binary operator applied elementwise: scalar with scalar stays a Python
\* scalar, anything with an array is an array of the array's shape.  An
\* exception in an operand propagates.
Broadcast(op, a, b) ==
    IF a.kind = "raise" \/ b.kind = "raise" THEN Raised
    ELSE [kind  |-> IF a.kind = "nd" \/ b.kind = "nd" THEN "nd" ELSE "py",
          shape |-> BroadcastShape(a, b),
          v     |-> [k \in 1..BroadcastCount(a, b) |-> Apply(op, Pick(a, k), Pick(b, k))]]

\* a * b
py_mul(a, b) == Broadcast("*", a, b)

\* Mutant: every division by a zero entry raises, as under
\* np.seterr(divide="raise", invalid="raise").
py_truediv_raising(a, b) ==
    IF \E k \in 1..Len(b.v) : IsZero(b.v[k]) THEN Raised
    ELSE Broadcast("/", a, b)

\* a / b: Python raises ZeroDivisionError when both operands are Python
\* scalars and b is zero; with a numpy array on either side the division is
\* numpy's, which yields inf or NaN.
py_truediv(a, b) ==
    IF a.kind = "py" /\ b.kind = "py" /\ IsZero(b.v[1]) THEN Raised
    ELSE Broadcast("/", a, b)

\* math.pi is the double nearest to pi, a fraction with denominator 2^48;
\* the model takes the convergent 22/7 of it, which keeps every Reynolds
\* number of the model within TLC's 32-bit integers.
PiNum == 22
PiDen == 7
math_pi == Py(R(PiNum, PiDen))

\* np.where(cond, a, b): always an array, of the broadcast shape.
np_where(cond, a, b) ==
    IF cond.kind = "raise" \/ a.kind = "raise" \/ b.kind = "raise" THEN Raised
    ELSE LET src == IF cond.kind = "nd" THEN cond ELSE IF b.kind = "nd" THEN b ELSE a
         IN  [kind  |-> "nd",
              shape |-> src.shape,
              v     |-> [k \in 1..Len(src.v) |->
                            IF Pick(cond, k) THEN Pick(a, k) ELSE Pick(b, k)]]

\* np.linspace(start, stop, num), num >= 2: start + i * (stop - start)/(num - 1).
np_linspace(start, stop, num) ==
    Nd1([i \in 1..num |->
            Add(R(start, 1), Mul(R(i - 1, 1), R(stop - start, num - 1)))])

\* np.meshgrid(x, y): two arrays of shape (len(y), len(x)); row j, column i
\* holds x[i] in the first and y[j] in the second.
np_meshgrid(x, y) ==
    LET nx == Len(x.v)
        ny == Len(y.v)
    IN  [X |-> [kind |-> "nd", shape |-> <<ny, nx>>,
                v |-> [k \in 1..(ny * nx) |-> x.v[((k - 1) % nx) + 1]]],
         Y |-> [kind |-> "nd", shape |-> <<ny, nx>>,
                v |-> [k \in 1..(ny * nx) |-> y.v[((k - 1) \div nx) + 1]]]]

\* np.full_like(a, fill): the shape of a, every entry fill.
np_full_like(a, fill) ==
    [kind |-> "nd", shape |-> a.shape, v |-> [k \in 1..Len(a.v) |-> R(fill, 1)]]

\* Entry (row j, column i) of a two-dimensional array.
At2(a, j, i) == a.v[(j - 1) * a.shape[2] + i]

\* ------------------------------------------------- the two pure functions

\* Mutant: the two positional arguments exchanged.
reynolds_swapped(x, y, density, viscosity) ==
    py_truediv(py_mul(py_mul(Py(R(4, 1)), density), y),
               py_mul(py_mul(py_mul(Py(R(60, 1)), viscosity), math_pi), x))

\* Mutant: the denominator's parentheses dropped,
\* 4 * density * x / 60 * viscosity * math.pi * y.
reynolds_unparenthesised(x, y, density, viscosity) ==
    py_mul(py_mul(py_mul(py_truediv(py_mul(py_mul(Py(R(4, 1)), density), x),
                                    Py(R(60, 1))),
                         viscosity), math_pi), y)

\* def reynolds(x, y, density, viscosity)
reynolds(x, y, density, viscosity) ==
    py_truediv(py_mul(py_mul(Py(R(4, 1)), density), x),
               py_mul(py_mul(py_mul(Py(R(60, 1)), viscosity), math_pi), y))

\* Mutant: the bounds themselves masked (<= and >=).
mask_z_values_exclusive(Z, z_min, z_max) ==
    np_where(Broadcast("|", Broadcast("<=", Z, z_min), Broadcast(">=", Z, z_max)),
             Py(NaN), Z)

\* Mutant: the values that pass are returned relative to z_min, Z - z_min.
mask_z_values_rebased(Z, z_min, z_max) ==
    np_where(Broadcast("|", Broadcast("<", Z, z_min), Broadcast(">", Z, z_max)),
             Py(NaN), Broadcast("-", Z, z_min))

\* Mutant: the upper test missing.
mask_z_values_lower_only(Z, z_min, z_max) ==
    np_where(Broadcast("<", Z, z_min), Py(NaN), Z)

\* def mask_z_values(Z, z_min, z_max)
mask_z_values(Z, z_min, z_max) ==
    np_where(Broadcast("|", Broadcast("<", Z, z_min), Broadcast(">", Z, z_max)),
             Py(NaN), Z)

\* ------------------------------------------------------------------ main

\* The number of samples along each axis.  The source passes 100 to
\* np.linspace; nothing in the script depends on the count beyond the two
\* axes sharing it.
NumSamples == 3

\* z = 2000, the boundary between laminar and turbulent flow.
BoundaryZ == 2000

\* Mutant: the plane scaled by the grid, 2000 * X.
main_Z_boundary_scaled(X) == py_mul(X, Py(R(BoundaryZ, 1)))

\* Z_boundary = np.full_like(X, 2000)
main_Z_boundary(X) == np_full_like(X, BoundaryZ)

\* Z_y_fixed = reynolds(x, y_value, density, viscosity)
main_Z_y_fixed(x, y_value, density, viscosity) ==
    reynolds(x, Py(R(y_value, 1)), Py(density), Py(viscosity))

\* Mutant: the cross-section masked from below only.
main_Z_y_fixed_masked_lower_only(Z_y_fixed, z_min, z_max) ==
    np_where(Broadcast("<", Z_y_fixed, Py(R(z_min, 1))), Py(NaN), Z_y_fixed)

\* Z_y_fixed_masked = np.where((Z_y_fixed < z_min) | (Z_y_fixed > z_max), np.nan, Z_y_fixed)
main_Z_y_fixed_masked(Z_y_fixed, z_min, z_max) ==
    np_where(Broadcast("|", Broadcast("<", Z_y_fixed, Py(R(z_min, 1))),
                           Broadcast(">", Z_y_fixed, Py(R(z_max, 1)))),
             Py(NaN), Z_y_fixed)

\* One execution of main() on the values w the widgets return: the locals
\* that are handed to the two figures.  error is TRUE when an exception
\* ended the pass.
main(w) ==
    LET x == np_linspace(w.x_min, w.x_max, NumSamples)
        y == np_linspace(w.y_min, w.y_max, NumSamples)
        XY == np_meshgrid(x, y)
        Z == reynolds(XY.X, XY.Y, Py(w.density), Py(w.viscosity))
        Z_masked == mask_z_values(Z, Py(R(w.z_min, 1)), Py(R(w.z_max, 1)))
        Z_boundary == main_Z_boundary(XY.X)
        Z_y_fixed == main_Z_y_fixed(x, w.y_value, w.density, w.viscosity)
        Z_y_fixed_masked == main_Z_y_fixed_masked(Z_y_fixed, w.z_min, w.z_max)
    IN  [x |-> x, y |-> y, X |-> XY.X, Y |-> XY.Y,
         Z |-> Z, Z_masked |-> Z_masked, Z_boundary |-> Z_boundary,
         Z_y_fixed |-> Z_y_fixed, Z_y_fixed_masked |-> Z_y_fixed_masked,
         error |-> \/ Z.kind = "raise" \/ Z_masked.kind = "raise"
                   \/ Z_y_fixed.kind = "raise" \/ Z_y_fixed_masked.kind = "raise"]

\* --------------------------------------------------------------- widgets

\* st.sidebar.number_input("Viscosity (Pa.s):", min_value=0.0, ...)
ViscosityMin == 0
\* st.sidebar.number_input("Density (kg/m3):", min_value=0.0, ...)
DensityMin == 0
\* st.sidebar.slider("X-axis Range ...", 1, 100, (1, 20))
XSliderMin == 1
XSliderMax == 100
XDefaultLo == 1
XDefaultHi == 20
\* st.sidebar.slider("Y-axis Range ...", 1, 500, (1, 250))
YSliderMin == 1
YSliderMax == 500
YDefaultLo == 1
YDefaultHi == 250
\* st.sidebar.slider("Z-axis Range:", 1, 10000, (1, 5000))
ZSliderMin == 1
ZSliderMax == 10000
ZDefaultLo == 1
ZDefaultHi == 5000
\* st.sidebar.number_input("Y-coordinate for XZ Plane", min_value=1, max_value=500, value=250)
YValueMin == 1
YValueMax == 500
YValueDefault == 250

\* What the user may type or drag, valid or not; the widgets' guards decide.
\* The defaults 0.001016 and 999.974 give fractions whose numerators pass
\* TLC's 32-bit integers on the default ranges, so the fluid starts at 0.001
\* and 1000, a state two edits away from the script's first pass.
ViscosityInputs == {R(-1, 1000), R(0, 1), R(1, 1000), R(1, 500)}
DensityInputs == {R(-1, 1), R(0, 1), R(500, 1), R(1000, 1)}
XInputs == {0, 1, 20}
YInputs == {0, 1, 250, 500}
ZInputs == {0, 1, 1000, 5000}
YValueInputs == {0, 1, 125, 250, 500, 501}

DefaultWidgets ==
    [viscosity |-> R(1, 1000), density |-> R(1000, 1),
     x_min |-> XDefaultLo, x_max |-> XDefaultHi,
     y_min |-> YDefaultLo, y_max |-> YDefaultHi,
     z_min |-> ZDefaultLo, z_max |-> ZDefaultHi,
     y_value |-> YValueDefault]

VARIABLES
    widgets,    \* the values the sidebar widgets hold between passes
    pass,       \* the locals of the last execution of main()
    probe,      \* pure-function check: the function under test, or "none"
    inp,        \* pure-function check: its arguments
    out,        \* pure-function check: its result
    called      \* pure-function check: whether it has been applied

vars == <<widgets, pass, probe, inp, out, called>>

\* Mutant: the surface is kept from the last pass while the three ranges
\* stay the same (a cache keyed on the ranges alone).
Rerun_cached(w) ==
    /\ widgets' = w
    /\ pass' = IF /\ w.x_min = widgets.x_min /\ w.x_max = widgets.x_max
                  /\ w.y_min = widgets.y_min /\ w.y_max = widgets.y_max
                  /\ w.z_min = widgets.z_min /\ w.z_max = widgets.z_max
               THEN [main(w) EXCEPT !.Z = pass.Z, !.Z_masked = pass.Z_masked]
               ELSE main(w)
    /\ UNCHANGED <<probe, inp, out, called>>

\* Streamlit executes the script from the top on every widget change:
\* main() runs once on the widgets' new values.
Rerun(w) ==
    /\ widgets' = w
    /\ pass' = main(w)
    /\ UNCHANGED <<probe, inp, out, called>>

\* A number input returns a value no less than its min_value.
ChangeViscosity(v) ==
    /\ ~Less(v, R(ViscosityMin, 1))
    /\ v # widgets.viscosity
    /\ Rerun([widgets EXCEPT !.viscosity = v])

ChangeDensity(v) ==
    /\ ~Less(v, R(DensityMin, 1))
    /\ v # widgets.density
    /\ Rerun([widgets EXCEPT !.density = v])

\* A range slider returns (lo, hi) with min_value <= lo <= hi <= max_value.
ChangeXRange(lo, hi) ==
    /\ XSliderMin <= lo /\ lo <= hi /\ hi <= XSliderMax
    /\ <<lo, hi>> # <<widgets.x_min, widgets.x_max>>
    /\ Rerun([widgets EXCEPT !.x_min = lo, !.x_max = hi])

ChangeYRange(lo, hi) ==
    /\ YSliderMin <= lo /\ lo <= hi /\ hi <= YSliderMax
    /\ <<lo, hi>> # <<widgets.y_min, widgets.y_max>>
    /\ Rerun([widgets EXCEPT !.y_min = lo, !.y_max = hi])

ChangeZRange(lo, hi) ==
    /\ ZSliderMin <= lo /\ lo <= hi /\ hi <= ZSliderMax
    /\ <<lo, hi>> # <<widgets.z_min, widgets.z_max>>
    /\ Rerun([widgets EXCEPT !.z_min = lo, !.z_max = hi])

\* Mutant: the cross-section input without min_value and max_value.
YValueUnbounded(v) == TRUE

\* The cross-section input is bounded by its own min_value and max_value.
YValueAccepted(v) == YValueMin <= v /\ v <= YValueMax

ChangeYValue(v) ==
    /\ YValueAccepted(v)
    /\ v # widgets.y_value
    /\ Rerun([widgets EXCEPT !.y_value = v])

Init ==
    /\ widgets = DefaultWidgets
    /\ pass = main(DefaultWidgets)
    /\ probe = "none"
    /\ inp = <<>>
    /\ out = <<>>
    /\ called = FALSE

Next ==
    \/ \E v \in ViscosityInputs : ChangeViscosity(v)
    \/ \E v \in DensityInputs : ChangeDensity(v)
    \/ \E lo \in XInputs, hi \in XInputs : ChangeXRange(lo, hi)
    \/ \E lo \in YInputs, hi \in YInputs : ChangeYRange(lo, hi)
    \/ \E lo \in ZInputs, hi \in ZInputs : ChangeZRange(lo, hi)
    \/ \E v \in YValueInputs : ChangeYValue(v)

Spec == Init /\ [][Next]_vars

\* ------------------------------------------- the pure functions, applied

\* The arguments the pure functions are applied to: Python scalars and
\* arrays of ProbeLen entries, over values on and around the boundaries.
ProbeLen == 2

Arrays(S) == {Nd1(s) : s \in [1..ProbeLen -> S]}

Operands(S) == {Py(r) : r \in S} \cup Arrays(S)

FlowValues == {R(1, 1), R(41, 2)}
DiameterValues == {R(0, 1), R(1, 1), R(250, 1)}
DensityValues == {R(0, 1), R(500, 1), R(1000, 1)}
ViscosityValues == {R(0, 1), R(1, 1000), R(1, 500)}
MaskValues == {NegInf, R(-1, 1), R(0, 1), R(1, 1), R(3, 2), R(2000, 1),
               R(5000, 1), R(5001, 1), PosInf, NaN}
MaskBounds == {R(1, 1), R(2000, 1), R(5000, 1)}

ReynoldsArgs ==
    [x : Operands(FlowValues), y : Operands(DiameterValues),
     density : {Py(r) : r \in DensityValues},
     viscosity : {Py(r) : r \in ViscosityValues}]

MaskArgs ==
    [Z : Operands(MaskValues),
     z_min : {Py(r) : r \in MaskBounds}, z_max : {Py(r) : r \in MaskBounds}]

\* Every combination the widgets can return.
MainArgs ==
    {w \in [viscosity : ViscosityInputs, density : DensityInputs,
            x_min : XInputs, x_max : XInputs, y_min : YInputs, y_max : YInputs,
            z_min : ZInputs, z_max : ZInputs, y_value : YValueInputs] :
        /\ ~Less(w.viscosity, R(ViscosityMin, 1))
        /\ ~Less(w.density, R(DensityMin, 1))
        /\ XSliderMin <= w.x_min /\ w.x_min <= w.x_max /\ w.x_max <= XSliderMax
        /\ YSliderMin <= w.y_min /\ w.y_min <= w.y_max /\ w.y_max <= YSliderMax
        /\ ZSliderMin <= w.z_min /\ w.z_min <= w.z_max /\ w.z_max <= ZSliderMax
        /\ YValueAccepted(w.y_value)}

CallReynolds ==
    /\ probe = "reynolds" /\ ~called
    /\ out' = reynolds(inp.x, inp.y, inp.density, inp.viscosity)
    /\ called' = TRUE
    /\ UNCHANGED <<widgets, pass, probe, inp>>

CallMask ==
    /\ probe = "mask_z_values" /\ ~called
    /\ out' = mask_z_values(inp.Z, inp.z_min, inp.z_max)
    /\ called' = TRUE
    /\ UNCHANGED <<widgets, pass, probe, inp>>

CallMain ==
    /\ probe = "main" /\ ~called
    /\ out' = main(inp)
    /\ called' = TRUE
    /\ UNCHANGED <<widgets, pass, probe, inp>>

FnInit ==
    /\ widgets = DefaultWidgets
    /\ pass = main(DefaultWidgets)
    /\ out = <<>>
    /\ called = FALSE
    /\ \/ probe = "reynolds" /\ inp \in ReynoldsArgs
       \/ probe = "mask_z_values" /\ inp \in MaskArgs
       \/ probe = "main" /\ inp \in MainArgs

FnNext == CallReynolds \/ CallMask \/ CallMain

FnSpec == FnInit /\ [][FnNext]_vars

\* ------------------------------------------------------------- properties

MaskCalled == probe = "mask_z_values" /\ called
ReynoldsCalled == probe = "reynolds" /\ called
MainCalled == probe = "main" /\ called

AllPositive(a) == \A k \in 1..Len(a.v) : IsPositive(a.v[k])

Scale(a, k) == py_mul(a, Py(k))

Factors == {R(2, 1), R(3, 1), R(1, 2)}

\* C1: mask_z_values(v, low, high) keeps the shape of v and, entry by entry,
\* returns v when low <= v <= high (the bounds included) and NaN when
\* v < low or v > high.
C1_MaskContract ==
    MaskCalled =>
        LET lo == inp.z_min.v[1]
            hi == inp.z_max.v[1]
        IN  /\ out.kind = "nd"
            /\ out.shape = inp.Z.shape
            /\ Len(out.v) = Len(inp.Z.v)
            /\ \A k \in 1..Len(inp.Z.v) :
                  /\ (Leq(lo, inp.Z.v[k]) /\ Leq(inp.Z.v[k], hi)) => out.v[k] = inp.Z.v[k]
                  /\ (Less(inp.Z.v[k], lo) \/ Less(hi, inp.Z.v[k])) => out.v[k] = NaN

\* An array whose first entry is the lower bound and passes, and whose
\* second entry lies above the upper bound and is masked.
C1_Witness ==
    /\ MaskCalled
    /\ inp.Z.kind = "nd"
    /\ Less(inp.z_min.v[1], inp.z_max.v[1])
    /\ inp.Z.v[1] = inp.z_min.v[1] /\ out.v[1] = inp.z_min.v[1]
    /\ Less(inp.z_max.v[1], inp.Z.v[2]) /\ out.v[2] = NaN

\* C6: masking a masked result again, with the same bounds, changes no
\* entry: mask(mask(v)) and mask(v) hold the same value, or both NaN, at
\* every place.
C6_MaskIdempotent ==
    MaskCalled => mask_z_values(out, inp.z_min, inp.z_max) = out

\* An input that already holds NaN next to a value that passes.
C6_Witness ==
    /\ MaskCalled
    /\ inp.Z.kind = "nd"
    /\ IsNaN(inp.Z.v[1])
    /\ IsFinite(out.v[2])
    /\ Less(inp.z_min.v[1], out.v[2])

\* C7: for positive arguments and a positive factor k, reynolds scales by k
\* with flow_rate and with density, and by 1/k with diameter and with
\* viscosity.
C7_Proportional ==
    (/\ ReynoldsCalled
     /\ AllPositive(inp.x) /\ AllPositive(inp.y)
     /\ AllPositive(inp.density) /\ AllPositive(inp.viscosity)) =>
        \A k \in Factors :
            /\ reynolds(Scale(inp.x, k), inp.y, inp.density, inp.viscosity)
                   = Scale(out, k)
            /\ reynolds(inp.x, inp.y, Scale(inp.density, k), inp.viscosity)
                   = Scale(out, k)
            /\ reynolds(inp.x, Scale(inp.y, k), inp.density, inp.viscosity)
                   = Scale(out, Recip(k))
            /\ reynolds(inp.x, inp.y, inp.density, Scale(inp.viscosity, k))
                   = Scale(out, Recip(k))

\* Two arrays of positive entries, positive fluid properties, and a result
\* that differs from entry to entry.
C7_Witness ==
    /\ ReynoldsCalled
    /\ inp.x.kind = "nd" /\ inp.y.kind = "nd"
    /\ AllPositive(inp.x) /\ AllPositive(inp.y)
    /\ AllPositive(inp.density) /\ AllPositive(inp.viscosity)
    /\ AllPositive(out)
    /\ out.v[1] # out.v[2]

\* Whether the call divides by zero at entry k.
ZeroDivisor(k) == IsZero(inp.viscosity.v[1]) \/ IsZero(Pick(inp.y, k))

\* C3 as stated: a call of reynolds with diameter = 0 or viscosity = 0,
\* scalars or arrays, never ends in a raised error.
C3_NeverRaises ==
    (/\ ReynoldsCalled
     /\ \E k \in 1..BroadcastCount(inp.x, inp.y) : ZeroDivisor(k)) =>
        out.kind # "raise"

\* C3 as amended: with a numpy array for flow_rate or diameter the call
\* returns an array that holds inf or NaN wherever the divisor is zero; a
\* call on two Python scalars raises ZeroDivisionError exactly when the
\* divisor is zero; and main(), whose two calls each pass an array,
\* completes for every widget state, viscosity = 0 included.
C3_ArrayCallsReturn ==
    /\ (ReynoldsCalled /\ (inp.x.kind = "nd" \/ inp.y.kind = "nd")) =>
          /\ out.kind = "nd"
          /\ \A k \in 1..Len(out.v) :
                ZeroDivisor(k) => (IsInf(out.v[k]) \/ IsNaN(out.v[k]))
    /\ (ReynoldsCalled /\ inp.x.kind = "py" /\ inp.y.kind = "py") =>
          (out.kind = "raise" <=> ZeroDivisor(1))
    /\ MainCalled =>
          /\ ~out.error
          /\ out.Z.kind = "nd" /\ out.Z_y_fixed.kind = "nd"
          /\ out.Z_masked.kind = "nd" /\ out.Z_y_fixed_masked.kind = "nd"

\* An array of flow rates over a scalar diameter, as in the cross-section,
\* with viscosity = 0 and a positive density: every entry is +inf.
C3_Witness ==
    /\ ReynoldsCalled
    /\ inp.x.kind = "nd" /\ inp.y.kind = "py"
    /\ IsZero(inp.viscosity.v[1])
    /\ IsPositive(inp.density.v[1])
    /\ \A k \in 1..Len(out.v) : out.v[k] = PosInf

Samples == 1..NumSamples

\* 4 * density * flow_rate and 60 * viscosity * pi * diameter, as numbers.
Numerator(flow_rate) == Mul(Mul(R(4, 1), widgets.density), flow_rate)
Denominator(diameter) ==
    Mul(Mul(Mul(R(60, 1), widgets.viscosity), R(PiNum, PiDen)), diameter)

\* C2: with positive density and viscosity, every entry of the surface and of
\* the cross-section satisfies result * (60 * viscosity * pi * diameter) =
\* 4 * density * flow_rate, where flow_rate is the sample of the flow-rate
\* range at the entry's column, and diameter is the sample of the diameter
\* range at the entry's row (surface) or y_value (cross-section).
C2_Formula ==
    (IsPositive(widgets.density) /\ IsPositive(widgets.viscosity)) =>
        /\ pass.x.v[1] = R(widgets.x_min, 1)
        /\ pass.x.v[NumSamples] = R(widgets.x_max, 1)
        /\ pass.y.v[1] = R(widgets.y_min, 1)
        /\ pass.y.v[NumSamples] = R(widgets.y_max, 1)
        /\ \A j \in Samples, i \in Samples :
              Mul(At2(pass.Z, j, i), Denominator(pass.y.v[j]))
                  = Numerator(pass.x.v[i])
        /\ \A i \in Samples :
              Mul(pass.Z_y_fixed.v[i], Denominator(R(widgets.y_value, 1)))
                  = Numerator(pass.x.v[i])

\* A pass over proper ranges on both axes with a cross-section diameter that
\* is neither end of the diameter range.
C2_Witness ==
    /\ IsPositive(widgets.density) /\ IsPositive(widgets.viscosity)
    /\ widgets.x_min < widgets.x_max
    /\ widgets.y_min < widgets.y_max
    /\ widgets.y_value # widgets.y_min /\ widgets.y_value # widgets.y_max
    /\ AllPositive(pass.Z) /\ AllPositive(pass.Z_y_fixed)

\* Row j of the surface and the cross-section agree, before and after the
\* mask.
RowAgrees(j) ==
    \A i \in Samples :
        /\ At2(pass.Z, j, i) = pass.Z_y_fixed.v[i]
        /\ At2(pass.Z_masked, j, i) = pass.Z_y_fixed_masked.v[i]

\* C4 as stated: the grid has a row whose diameter is y_value, and the
\* cross-section equals the surface on it.
C4_RowExists ==
    \E j \in Samples : pass.y.v[j] = R(widgets.y_value, 1) /\ RowAgrees(j)

\* C4 as amended: on every row of the grid whose diameter equals y_value the
\* cross-section equals the surface, before and after masking; the grid
\* need not have such a row.
C4_RowsAtYValueAgree ==
    \A j \in Samples : pass.y.v[j] = R(widgets.y_value, 1) => RowAgrees(j)

\* y_value is the top row of a proper diameter range, and the row holds
\* both a value that passes the mask and one that does not.
C4_Witness ==
    /\ widgets.y_min < widgets.y_max
    /\ pass.y.v[NumSamples] = R(widgets.y_value, 1)
    /\ \E i \in Samples : IsFinite(pass.Z_y_fixed_masked.v[i])
    /\ \E i \in Samples :
          IsFinite(pass.Z_y_fixed.v[i]) /\ IsNaN(pass.Z_y_fixed_masked.v[i])

\* C5 as stated: y_value lies within the current diameter range.
C5_WithinYRange ==
    widgets.y_min <= widgets.y_value /\ widgets.y_value <= widgets.y_max

\* C5 as amended: y_value lies within the bounds of its own input, 1..500,
\* which are those of the diameter slider; the range selected on the slider
\* does not constrain it.
C5_WithinInputBounds ==
    /\ YValueMin <= widgets.y_value /\ widgets.y_value <= YValueMax
    /\ YSliderMin <= widgets.y_value /\ widgets.y_value <= YSliderMax
    /\ pass.Z_y_fixed = main_Z_y_fixed(pass.x, widgets.y_value,
                                       widgets.density, widgets.viscosity)

\* After the slider was narrowed, y_value lies above the diameter range.
C5_Witness ==
    /\ widgets.y_max < YDefaultHi
    /\ widgets.y_value > widgets.y_max

\* C8: the boundary plane has the shape of X, of Y and of the masked
\* surface, and every entry is 2000.
C8_BoundaryPlane ==
    /\ pass.Z_boundary.kind = "nd"
    /\ pass.Z_boundary.shape = <<NumSamples, NumSamples>>
    /\ pass.Z_boundary.shape = pass.X.shape
    /\ pass.Z_boundary.shape = pass.Y.shape
    /\ pass.Z_boundary.shape = pass.Z_masked.shape
    /\ Len(pass.Z_boundary.v) = NumSamples * NumSamples
    /\ \A k \in 1..Len(pass.Z_boundary.v) : pass.Z_boundary.v[k] = R(2000, 1)

\* A pass whose displayed range ends below 2000, with no viscosity, over
\* proper ranges: nothing of the surface is displayed, the plane is intact.
C8_Witness ==
    /\ widgets.z_max < 2000
    /\ IsZero(widgets.viscosity)
    /\ widgets.x_min < widgets.x_max /\ widgets.y_min < widgets.y_max
    /\ pass.X.v[1] # pass.X.v[2]
    /\ Len(pass.Z_boundary.v) = NumSamples * NumSamples

\* C9: the artifacts held after any sequence of changes are those of one
\* execution of main() on the current widget values: nothing is carried
\* over from an earlier pass.
C9_FreshPass == pass = main(widgets)

\* Several changes after the first pass: the fluid, the displayed range and
\* the cross-section diameter all differ from their first values.
ChangedSince(w) ==
    /\ w.viscosity # widgets.viscosity /\ w.density # widgets.density
    /\ w.z_max # widgets.z_max /\ w.y_value # widgets.y_value
C9_Witness ==
    /\ ChangedSince(DefaultWidgets)
    /\ widgets.x_min < widgets.x_max

\* C10: every entry of the masked surface and of the masked cross-section
\* is NaN or a finite value within [z_min, z_max]; an infinite or NaN
\* Reynolds value comes out as NaN; no pass ends in an error.
Displayable(e) ==
    \/ IsNaN(e)
    \/ /\ IsFinite(e)
       /\ Leq(R(widgets.z_min, 1), e) /\ Leq(e, R(widgets.z_max, 1))

C10_MaskedEntries ==
    /\ ~pass.error
    /\ \A k \in 1..Len(pass.Z_masked.v) :
          /\ Displayable(pass.Z_masked.v[k])
          /\ ~IsFinite(pass.Z.v[k]) => IsNaN(pass.Z_masked.v[k])
    /\ \A i \in 1..Len(pass.Z_y_fixed_masked.v) :
          /\ Displayable(pass.Z_y_fixed_masked.v[i])
          /\ ~IsFinite(pass.Z_y_fixed.v[i]) => IsNaN(pass.Z_y_fixed_masked.v[i])

\* Zero viscosity with a positive density: the surface and the
\* cross-section are +inf throughout and are masked to NaN.
C10_Witness ==
    /\ IsZero(widgets.viscosity) /\ IsPositive(widgets.density)
    /\ \A k \in 1..Len(pass.Z.v) : pass.Z.v[k] = PosInf /\ IsNaN(pass.Z_masked.v[k])
    /\ \A i \in Samples :
          pass.Z_y_fixed.v[i] = PosInf /\ IsNaN(pass.Z_y_fixed_masked.v[i])

====
